---- MODULE Spec2Model ----
(***************************************************************************)
(* Rating aggregation of cinema_platform_back: the Rating collection with  *)
(* its unique (userId, movieId) index, the averageRating / totalRatings    *)
(* fields cached on the Movie document, the rating controller's handlers   *)
(* and the Mongoose hooks that recompute the cache after a rating write.   *)
(*                                                                         *)
(* Every awaited database call of a handler is one atomic step.  The       *)
(* requests in flight are a bag of continuations, each with the call (pc)  *)
(* it makes next; a request enters the bag with its first call, the code   *)
(* before that call touching no shared state.  Averages are kept in tenths *)
(* (4.7 is 47), so that Math.round(avg * 10) / 10 is exact integer         *)
(* arithmetic.                                                             *)
(***************************************************************************)
EXTENDS Integers, FiniteSets, Sequences, Bags, TLC

\* ---- bounds --------------------------------------------------------------
NumUsers == 2          \* accounts that send requests in Spec and HealSpec
NumMovies == 2         \* movies in the catalogue
NumReqs == 2           \* requests that arrive in a run of Spec or StatsSpec
NumScores == 2         \* scores submitted in Spec and HealSpec: the highest
SeqUsers == 3          \* accounts that send requests in SeqSpec
SeqScores == 3         \* scores submitted in SeqSpec: the SeqScores highest
StatUsers == 4         \* accounts with a stored rating at the start of StatsSpec
StatScores == 2        \* scores stored at the start of StatsSpec: the highest
PairUsers == 2         \* accounts that send requests in PairSpec
ValUsers == 1          \* accounts that send requests in ValidationSpec and AuthSpec

\* ---- program constants ---------------------------------------------------
MinRating == 1         \* RatingSchema.rating.min
MaxRating == 5         \* RatingSchema.rating.max

Users == 1..NumUsers
Movies == 1..NumMovies
Scores == (MaxRating - NumScores + 1)..MaxRating
SeqUserSet == 1..SeqUsers
SeqScoreSet == (MaxRating - SeqScores + 1)..MaxRating
StatUserSet == 1..StatUsers
StatScoreSet == (MaxRating - StatScores + 1)..MaxRating
ValUserSet == 1..ValUsers
PairUserSet == 1..PairUsers
AllUsers == Users \cup SeqUserSet \cup StatUserSet \cup ValUserSet \cup PairUserSet

\* the movie whose requests Spec, SeqSpec, HealSpec and StatsSpec follow
Followed == {m \in Movies : m = 1}

\* ObjectIds: a new Rating document of a pair takes the least number that no
\* stored document of the pair and no request holding one of them refers to
IdPool == 1..(NumReqs + 1)

VARIABLES
  ratings,          \* the Rating collection: a set of documents
  movies,           \* the Movie collection: movie id -> document
  req,              \* the requests in flight: a bag of continuations
  resp,             \* the response sent by the last step, if it sent one
  recomputeFailed,  \* history: movie -> some recompute of it has failed
  started,          \* the number of requests that have arrived, up to NumReqs
  settled,          \* history: movie -> a recompute has written the cache
                    \*   and no rating of the movie was written since
  accounts,            \* the User collection: user id -> document
  favorites            \* the Favorite collection: a set of documents

vars == <<ratings, movies, req, resp, recomputeFailed, started, settled, accounts,
         favorites>>

\* ---- the Rating collection -----------------------------------------------

RatingsOf(rs, movieId) == {r \in rs : r.movieId = movieId}

\* a filter that leaves the user out
RatingsOfPair_AnyUser(rs, userId, movieId) == {r \in rs : r.movieId = movieId}

RatingsOfPair(rs, userId, movieId) ==
  {r \in rs : r.userId = userId /\ r.movieId = movieId}

\* the index not unique
UniqueIndexViolated_NotUnique(rs, userId, movieId) == FALSE

\* RatingSchema.index({ userId: 1, movieId: 1 }, { unique: true })
UniqueIndexViolated(rs, userId, movieId) ==
  RatingsOfPair(rs, userId, movieId) # {}

RECURSIVE SumRatings(_)
SumRatings(rs) ==
  IF rs = {} THEN 0
  ELSE LET r == CHOOSE x \in rs : TRUE
       IN r.rating + SumRatings(rs \ {r})

\* the tenths cut off instead of rounded
RoundToOneDecimal_Truncated(sum, n) == (10 * sum) \div n

\* a half going down instead of up
RoundToOneDecimal_HalfDown(sum, n) == (20 * sum + n - 1) \div (2 * n)

\* rounded to whole stars
RoundToOneDecimal_WholeStars(sum, n) == 10 * ((2 * sum + n) \div (2 * n))

\* Math.round(sum / n * 10), the result in tenths: floor(10 * sum / n + 1/2)
RoundToOneDecimal(sum, n) == (20 * sum + n) \div (2 * n)

\* RatingSchema.statics.getMovieAverageRating: one $match / $group pipeline
getMovieAverageRating(rs, movieId) ==
  LET result == RatingsOf(rs, movieId)
  IN IF result = {}
     THEN [average |-> 0, total |-> 0]
     ELSE [average |-> RoundToOneDecimal(SumRatings(result), Cardinality(result)),
           total |-> Cardinality(result)]

\* the count stepped by one instead of set
updateMovieRatingSet_Increment(movie, stats) ==
  [movie EXCEPT !.averageRating = stats.average, !.totalRatings = @ + 1]

\* the count left out of the $set
updateMovieRatingSet_AverageOnly(movie, stats) ==
  [movie EXCEPT !.averageRating = stats.average]

\* the $set of Movie.findByIdAndUpdate in RatingSchema.statics.updateMovieRating
updateMovieRatingSet(movie, stats) ==
  [movie EXCEPT !.averageRating = stats.average, !.totalRatings = stats.total]

\* ---- requests ------------------------------------------------------------

NoStats == [average |-> 0, total |-> 0]

NoDistribution == [s \in MinRating..MaxRating |-> 0]

\* a number as JavaScript holds it: NaN or a whole number
Num(n) == [nan |-> FALSE, n |-> n]
NaN == [nan |-> TRUE, n |-> 0]

\* a value of the query string: absent, a decimal numeral, or other text
NoQueryValue == [type |-> "absent", n |-> 0]

NoPagination ==
  [page |-> NoQueryValue, limit |-> NoQueryValue, totalPages |-> Num(0),
   totalRatings |-> 0, returned |-> 0]

NoResp ==
  [kind |-> "none", userId |-> 0, movieId |-> 0, rating |-> 0, status |-> 0,
   writeOk |-> FALSE,
   committed |-> FALSE, recomputes |-> 0,
   hookFailed |-> FALSE, note |-> {}, stats |-> NoStats, distribution |-> NoDistribution,
   pagination |-> NoPagination, token |-> <<>>, password |-> 0]

\* the first database call of each handler
FirstCall(kind) ==
  CASE kind = "create" -> "movieCheck"
    [] kind = "update" -> "findRating"
    [] kind = "delete" -> "findDelete"
    [] kind = "stats" -> "statsMovie"
    [] kind = "read" -> "findRating"
    [] kind = "view" -> "viewLoad"
    [] kind = "forgot" -> "forgotFind"
    [] kind = "reset" -> "resetFind"
    [] kind = "favorite" -> "favMovie"

\* no reset token: passwordResetToken undefined, or none in the body
NoToken == <<>>

\* a request as it arrives, with a valid token, a well-formed movie id and a
\* score in 1..5 (the checks of createRating / updateRating / deleteRating
\* before their first database call)
Request(kind, userId, movieId, rating) ==
  [kind |-> kind, pc |-> FirstCall(kind), userId |-> userId, movieId |-> movieId,
   rating |-> IF kind \in {"create", "update"} THEN rating ELSE 0,
   existing |-> 0, loaded |-> 0, stats |-> NoStats, writeOk |-> FALSE,
   committed |-> FALSE, recomputes |-> 0, token |-> NoToken, password |-> 0]

Arrivals(kinds, users, movieIds, scores) ==
  {Request(kind, u, m, s) : kind \in kinds, u \in users, m \in movieIds, s \in scores}

\* the requests in flight: those that have made a call and not yet answered
InFlight == BagToSet(req)

\* the requests in flight other than r (all of them when r is arriving)
Others(r) == req (-) SetToBag({r})

NewId(userId, movieId) ==
  LET used == {r.id : r \in RatingsOfPair(ratings, userId, movieId)} \cup
              {q.existing : q \in {x \in InFlight : x.userId = userId /\
                                                    x.movieId = movieId}}
  IN CHOOSE i \in IdPool : i \notin used /\ \A j \in IdPool : j < i => j \in used

\* a user as register stores it: active, with a password and no reset token;
\* issued counts the reset tokens generated for the user so far, and spent
\* (history) holds the numbers of those a reset has used or a newer one has
\* replaced
NewUser ==
  [isActive |-> TRUE, password |-> 0, passwordResetToken |-> NoToken,
   passwordResetExpires |-> "none", issued |-> 0, spent |-> {}]

\* a movie as createMovie stores it: the schema defaults, and its title
NewMovie ==
  [isActive |-> TRUE, averageRating |-> 0, totalRatings |-> 0, views |-> 0, title |-> 1]

Init ==
  /\ ratings = {}
  /\ movies = [m \in Movies |-> NewMovie]
  /\ req = EmptyBag
  /\ resp = NoResp
  /\ started = 0
  /\ recomputeFailed = [m \in Movies |-> FALSE]
  /\ settled = [m \in Movies |-> FALSE]
  /\ accounts = [u \in AllUsers |-> NewUser]
  /\ favorites = {}

\* ---- responses -----------------------------------------------------------

\* the response of request r: its status and what the request did
Response(r, status, hookFailed, note) ==
  [kind |-> r.kind, userId |-> r.userId, movieId |-> r.movieId, rating |-> r.rating,
   status |-> status, writeOk |-> r.writeOk,
   committed |-> r.committed,
   recomputes |-> r.recomputes, hookFailed |-> hookFailed, note |-> note,
   stats |-> NoStats, distribution |-> NoDistribution, pagination |-> NoPagination,
   token |-> r.token, password |-> r.password]

\* 200 on every path
SuccessStatus_Always200(r) == 200

\* res.status(201) after newRating.save(), res.status(200) on the other paths
SuccessStatus(r) ==
  IF r.kind = "create" /\ r.existing = 0 THEN 201 ELSE 200

\* the hook passing the error of updateMovieRating on
PostHookError_Rethrown(recomputeError) == recomputeError

\* the try / catch of the post('save') and post('findOneAndDelete') hooks:
\* the error of updateMovieRating is logged and not passed on
PostHookError(recomputeError) == FALSE

\* the hooks run whatever the outcome of the operation
PostHookFires_Always(writeError) == TRUE

\* Mongoose runs the post('save') / post('findOneAndDelete') hooks only when
\* the operation went through (and, for the delete, returned a document)
PostHookFires(writeError) == ~writeError

\* the status the caller gets when the rating write went through
StatusAfterHook(r, recomputeError) ==
  IF PostHookError(recomputeError) THEN 500 ELSE SuccessStatus(r)

\* ---- the handlers, one action per awaited call ---------------------------
\* callers are the requests that may make a call: those in flight and
\* those that may arrive; r is the one that makes it

\* the arrivals are counted up to NumReqs
Counted(r) ==
  started' = IF r \in InFlight \/ started >= NumReqs THEN started ELSE started + 1

\* request r answers: next(error) or res.status(..).json(..)
Answer(r, status, hookFailed, note) ==
  /\ req' = Others(r)
  /\ resp' = Response(r, status, hookFailed, note)

\* request r goes on, as s, to its next call
Goto(r, s) ==
  /\ req' = Others(r) (+) SetToBag({s})
  /\ resp' = NoResp

\* the outcome of the rating write of request r, s being its state after the
\* write: on to the post hook, or the error response
AfterWrite(r, s, writeError, errorStatus) ==
  IF PostHookFires(writeError)
  THEN Goto(r, [s EXCEPT !.pc = "agg", !.writeOk = ~writeError, !.recomputes = @ + 1])
  ELSE /\ req' = Others(r)
       /\ resp' = Response(s, errorStatus, FALSE, {})

\* createRating: Movie.findOne({ _id: movieId, isActive: true })
MovieCheck(callers) ==
  \E r \in callers :
    /\ r.pc = "movieCheck"
    /\ IF movies[r.movieId].isActive
       THEN Goto(r, [r EXCEPT !.pc = "findRating"])
       ELSE Answer(r, 404, FALSE, {})
    /\ UNCHANGED <<ratings, movies, recomputeFailed, settled>>
    /\ Counted(r)
    /\ UNCHANGED <<accounts, favorites>>

\* createRating / updateRating: Rating.findOne({ userId, movieId })
FindRating(callers) ==
  \E r \in callers :
    /\ r.pc = "findRating"
    /\ LET found == RatingsOfPair(ratings, r.userId, r.movieId)
       IN IF found = {}
          THEN IF r.kind = "create"
               THEN Goto(r, [r EXCEPT !.pc = "preSave"])
               ELSE Answer(r, 404, FALSE, {})
          ELSE \E d \in found :
                 Goto(r, [r EXCEPT !.pc = "preSave", !.existing = d.id, !.loaded = d.rating])
    /\ UNCHANGED <<ratings, movies, recomputeFailed, settled>>
    /\ Counted(r)
    /\ UNCHANGED <<accounts, favorites>>

\* save(): the pre('save') hooks. Movie.findById: a missing movie is a 404,
\* an inactive one a 400. User.findById finds every authenticated user
\* (accounts are only ever deactivated, never removed).
PreSave(callers) ==
  \E r \in callers :
    /\ r.pc = "preSave"
    /\ IF movies[r.movieId].isActive
       THEN Goto(r, [r EXCEPT !.pc = "write"])
       ELSE Answer(r, 400, FALSE, {})
    /\ UNCHANGED <<ratings, movies, recomputeFailed, settled>>
    /\ Counted(r)
    /\ UNCHANGED <<accounts, favorites>>

\* save() of a new document: insertOne under the unique index; a duplicate
\* key is turned into the 409 of the post('save') error handler
SaveInsert(callers) ==
  \E r \in callers :
    /\ r.pc = "write"
    /\ r.existing = 0
    /\ IF UniqueIndexViolated(ratings, r.userId, r.movieId)
       THEN /\ AfterWrite(r, r, TRUE, 409)
            /\ UNCHANGED <<ratings, settled>>
       ELSE /\ ratings' = ratings \cup
                 {[userId |-> r.userId, movieId |-> r.movieId,
                   id |-> NewId(r.userId, r.movieId), rating |-> r.rating]}
            /\ AfterWrite(r, [r EXCEPT !.committed = TRUE], FALSE, 0)
            /\ settled' = [settled EXCEPT ![r.movieId] = FALSE]
    /\ UNCHANGED <<movies, recomputeFailed>>
    /\ Counted(r)
    /\ UNCHANGED <<accounts, favorites>>

\* save() of a loaded document: updateOne({ _id }, { $set: { rating } }) when
\* the score differs from the loaded one, otherwise only the check that the
\* document is still there; DocumentNotFoundError (500) when it is gone
SaveUpdate(callers) ==
  \E r \in callers :
    /\ r.pc = "write"
    /\ r.existing # 0
    /\ LET doc == {d \in RatingsOfPair(ratings, r.userId, r.movieId) : d.id = r.existing}
       IN IF doc = {}
          THEN /\ AfterWrite(r, r, TRUE, 500)
               /\ UNCHANGED <<ratings, settled>>
          ELSE IF r.rating = r.loaded
          THEN /\ AfterWrite(r, r, FALSE, 0)
               /\ UNCHANGED <<ratings, settled>>
          ELSE /\ ratings' = (ratings \ doc) \cup {[d EXCEPT !.rating = r.rating] : d \in doc}
               /\ AfterWrite(r, [r EXCEPT !.committed = TRUE], FALSE, 0)
               /\ settled' = [settled EXCEPT ![r.movieId] = FALSE]
    /\ UNCHANGED <<movies, recomputeFailed>>
    /\ Counted(r)
    /\ UNCHANGED <<accounts, favorites>>

\* deleteRating: Rating.findOneAndDelete({ userId, movieId }); 404 when it
\* returns null, and then the post hook does nothing
FindOneAndDelete(callers) ==
  \E r \in callers :
    /\ r.pc = "findDelete"
    /\ LET found == RatingsOfPair(ratings, r.userId, r.movieId)
       IN IF found = {}
          THEN /\ AfterWrite(r, r, TRUE, 404)
               /\ UNCHANGED <<ratings, settled>>
          ELSE \E d \in found :
               /\ ratings' = ratings \ {d}
               /\ AfterWrite(r, [r EXCEPT !.committed = TRUE], FALSE, 0)
               /\ settled' = [settled EXCEPT ![r.movieId] = FALSE]
    /\ UNCHANGED <<movies, recomputeFailed>>
    /\ Counted(r)
    /\ UNCHANGED <<accounts, favorites>>

\* the storage call that writes or deletes the rating fails outright
WriteFails(callers) ==
  \E r \in callers :
    /\ r.pc \in {"write", "findDelete"}
    /\ AfterWrite(r, r, TRUE, 500)
    /\ UNCHANGED <<ratings, movies, recomputeFailed, settled>>
    /\ Counted(r)
    /\ UNCHANGED <<accounts, favorites>>

\* updateMovieRating, first await: this.getMovieAverageRating(movieId)
AggregateRead(callers) ==
  \E r \in callers :
    /\ r.pc = "agg"
    /\ Goto(r, [r EXCEPT !.pc = "movieWrite",
                         !.stats = getMovieAverageRating(ratings, r.movieId)])
    /\ UNCHANGED <<ratings, movies, recomputeFailed, settled>>
    /\ Counted(r)
    /\ UNCHANGED <<accounts, favorites>>

\* updateMovieRating, second await: Movie.findByIdAndUpdate(movieId, { $set });
\* the hook returns, save() / findOneAndDelete() resolves, the handler answers
MovieWrite(callers) ==
  \E r \in callers :
    /\ r.pc = "movieWrite"
    /\ LET m == r.movieId
           truth == getMovieAverageRating(ratings, m)
           cached == [average |-> movies[m].averageRating, total |-> movies[m].totalRatings]
           note == (IF recomputeFailed[m] /\ cached # truth THEN {"healed"} ELSE {})
                   \cup (IF settled[m] THEN {"repeated"} ELSE {})
       IN /\ movies' = [movies EXCEPT ![m] = updateMovieRatingSet(@, r.stats)]
          /\ settled' = [settled EXCEPT ![m] = TRUE]
          /\ Answer(r, StatusAfterHook(r, FALSE), FALSE, note)
    /\ UNCHANGED <<ratings, recomputeFailed>>
    /\ Counted(r)
    /\ UNCHANGED <<accounts, favorites>>

\* the aggregate query or the movie write of updateMovieRating throws
RecomputeFails(callers) ==
  \E r \in callers :
    /\ r.pc \in {"agg", "movieWrite"}
    /\ recomputeFailed' = [recomputeFailed EXCEPT ![r.movieId] = TRUE]
    /\ Answer(r, StatusAfterHook(r, TRUE), TRUE, {})
    /\ UNCHANGED <<ratings, movies, settled>>
    /\ Counted(r)
    /\ UNCHANGED <<accounts, favorites>>

\* deleteMovie: Movie.findOneAndUpdate({ _id, isActive: true }, { isActive: false })
DeleteMovie(m) ==
  /\ movies[m].isActive
  /\ movies' = [movies EXCEPT ![m].isActive = FALSE]
  /\ resp' = NoResp
  /\ started' = IF started >= NumReqs THEN started ELSE started + 1
  /\ UNCHANGED <<ratings, req, recomputeFailed, settled, accounts, favorites>>

\* getUserRatingForMovie: Rating.getUserRatingForMovie(userId, movieId), a
\* findOne, and the 200 response: hasRating false (rating 0 here) when it
\* returns null, else hasRating true with the score of the document
GetUserRatingForMovie(userId, movieId) ==
  /\ LET found == RatingsOfPair(ratings, userId, movieId)
         r == Request("read", userId, movieId, 0)
     IN IF found = {}
        THEN resp' = Response(r, 200, FALSE, {})
        ELSE \E d \in found :
               resp' = [Response(r, 200, FALSE, {}) EXCEPT !.rating = d.rating]
  /\ UNCHANGED <<ratings, movies, req, recomputeFailed, settled, accounts, favorites>>
  /\ started' = IF started >= NumReqs THEN started ELSE started + 1

\* getMovieStatistics: Movie.findOne({ _id: movieId, isActive: true })
StatsMovie(callers) ==
  \E r \in callers :
    /\ r.pc = "statsMovie"
    /\ IF movies[r.movieId].isActive
       THEN Goto(r, [r EXCEPT !.pc = "statsAgg"])
       ELSE Answer(r, 404, FALSE, {})
    /\ UNCHANGED <<ratings, movies, recomputeFailed, settled>>
    /\ Counted(r)
    /\ UNCHANGED <<accounts, favorites>>

\* getMovieStatistics: Rating.getMovieAverageRating(movieId)
StatsAggregate(callers) ==
  \E r \in callers :
    /\ r.pc = "statsAgg"
    /\ Goto(r, [r EXCEPT !.pc = "statsDist",
                         !.stats = getMovieAverageRating(ratings, r.movieId)])
    /\ UNCHANGED <<ratings, movies, recomputeFailed, settled>>
    /\ Counted(r)
    /\ UNCHANGED <<accounts, favorites>>

\* getMovieStatistics: the distribution pipeline ($group by rating), then the
\* 200 response with statistics.averageRating / totalRatings / distribution
StatsDistribution(callers) ==
  \E r \in callers :
    /\ r.pc = "statsDist"
    /\ LET distribution == [s \in MinRating..MaxRating |->
              Cardinality({d \in RatingsOf(ratings, r.movieId) : d.rating = s})]
       IN /\ req' = Others(r)
          /\ resp' = [Response(r, 200, FALSE, {}) EXCEPT
                        !.stats = r.stats, !.distribution = distribution]
    /\ UNCHANGED <<ratings, movies, recomputeFailed, settled>>
    /\ Counted(r)
    /\ UNCHANGED <<accounts, favorites>>

RatingOps == {"create", "update", "delete"}

\* a request in flight makes its next call, or, while fewer than NumReqs
\* have arrived, one arrives and makes its first
Callers(arriving) ==
  InFlight \cup (IF started < NumReqs THEN arriving ELSE {})

\* a request in flight makes its next call, or, with none in flight, one
\* arrives and makes its first
OneAtATime(arriving) ==
  InFlight \cup (IF req = EmptyBag THEN arriving ELSE {})

\* NumReqs requests of any accounts and kinds on one movie, in any
\* interleaving; a deleteMovie or a getUserRatingForMovie, a single call
\* each, is one of them
Concurrent == Callers(Arrivals(RatingOps, Users, Followed, Scores))

Next ==
  \/ MovieCheck(Concurrent)
  \/ FindRating(Concurrent)
  \/ PreSave(Concurrent)
  \/ SaveInsert(Concurrent)
  \/ SaveUpdate(Concurrent)
  \/ FindOneAndDelete(Concurrent)
  \/ WriteFails(Concurrent)
  \/ AggregateRead(Concurrent)
  \/ MovieWrite(Concurrent)
  \/ RecomputeFails(Concurrent)
  \/ \E m \in Followed : started < NumReqs /\ DeleteMovie(m)
  \/ \E u \in Users, m \in Followed : started < NumReqs /\ GetUserRatingForMovie(u, m)

Spec == Init /\ [][Next]_vars

\* requests on one movie run one at a time, each answering before the next
\* arrives, and no recompute fails
Sequential == OneAtATime(Arrivals(RatingOps, SeqUserSet, Followed, SeqScoreSet))

SeqNext ==
  \/ MovieCheck(Sequential)
  \/ FindRating(Sequential)
  \/ PreSave(Sequential)
  \/ SaveInsert(Sequential)
  \/ SaveUpdate(Sequential)
  \/ FindOneAndDelete(Sequential)
  \/ WriteFails(Sequential)
  \/ AggregateRead(Sequential)
  \/ MovieWrite(Sequential)

SeqSpec == Init /\ [][SeqNext]_vars

\* requests on one movie run one at a time; recomputes may fail and the
\* movie may be deleted between two requests
Healing == OneAtATime(Arrivals(RatingOps, Users, Followed, Scores))

HealNext ==
  \/ MovieCheck(Healing)
  \/ FindRating(Healing)
  \/ PreSave(Healing)
  \/ SaveInsert(Healing)
  \/ SaveUpdate(Healing)
  \/ FindOneAndDelete(Healing)
  \/ WriteFails(Healing)
  \/ AggregateRead(Healing)
  \/ MovieWrite(Healing)
  \/ RecomputeFails(Healing)
  \/ \E m \in Followed : DeleteMovie(m)

HealSpec == Init /\ [][HealNext]_vars

\* the store as some history of requests has left it: the accounts that have
\* rated the movie (the first ones, the accounts being interchangeable) with any
\* of the scores, the cache in step with them or, after recomputes that
\* failed, still the one of a new movie
StatsInit ==
  /\ \E f \in [StatUserSet -> {0} \cup StatScoreSet] :
       /\ \A u, v \in StatUserSet : u < v => f[u] >= f[v]
       /\ ratings = {[userId |-> u, movieId |-> m, id |-> 1, rating |-> f[u]] :
                       u \in {v \in StatUserSet : f[v] # 0}, m \in Followed}
  /\ \E inStep \in BOOLEAN :
       /\ movies = [m \in Movies |->
            IF inStep
            THEN updateMovieRatingSet(NewMovie,
                                      getMovieAverageRating(ratings, m))
            ELSE NewMovie]
       /\ recomputeFailed = [m \in Movies |-> ~inStep /\ RatingsOf(ratings, m) # {}]
  /\ req = EmptyBag
  /\ resp = NoResp
  /\ started = 0
  /\ settled = [m \in Movies |-> FALSE]
  /\ accounts = [u \in AllUsers |-> NewUser]
  /\ favorites = {}

\* NumReqs requests on one movie: statistics requests, with deleteRating and
\* deleteMovie requests running beside them
Readers == Callers(Arrivals({"stats"}, {0}, Followed, {0}))

Deleters == Callers(Arrivals({"delete"}, StatUserSet, Followed, {0}))

StatsNext ==
  \/ StatsMovie(Readers)
  \/ StatsAggregate(Readers)
  \/ StatsDistribution(Readers)
  \/ FindOneAndDelete(Deleters)
  \/ WriteFails(Deleters)
  \/ AggregateRead(Deleters)
  \/ MovieWrite(Deleters)
  \/ RecomputeFails(Deleters)
  \/ \E m \in Followed : started < NumReqs /\ DeleteMovie(m)

StatsSpec == StatsInit /\ [][StatsNext]_vars

\* ---- score validation ---------------------------------------------------

\* values of req.body.rating, numbers in tenths: absent, "3", and 0, 1, ..,
\* 6 and 2.5
RatingBodies ==
  {[type |-> "undefined", tenths |-> 0], [type |-> "string", tenths |-> 30],
   [type |-> "number", tenths |-> 25]} \cup
  {[type |-> "number", tenths |-> 10 * s] : s \in (MinRating - 1)..(MaxRating + 1)}

\* a check that forgets the upper limit
RatingIsValid_NoUpperBound(body) ==
  /\ body.type = "number"
  /\ body.tenths % 10 = 0
  /\ body.tenths \div 10 >= 1

\* rating !== undefined && Number.isInteger(rating) && rating >= 1 && rating <= 5
RatingIsValid(body) ==
  /\ body.type = "number"
  /\ body.tenths % 10 = 0
  /\ body.tenths \div 10 >= 1
  /\ body.tenths \div 10 <= 5

\* the scores of the bodies that pass the check
Accepted(bodies) == {b.tenths \div 10 : b \in {x \in bodies : RatingIsValid(x)}}

\* createRating / updateRating with a body that fails the check:
\* throw createError(.., 400) before the first database call
RejectRating(kind, userId, movieId, body) ==
  /\ ~RatingIsValid(body)
  /\ resp' = Response(Request(kind, userId, movieId, 0), 400, FALSE, {"validation"})
  /\ UNCHANGED <<ratings, movies, req, recomputeFailed, started, settled, accounts, favorites>>

\* requests on one movie with any rating in the body, one at a time
Validated == OneAtATime(Arrivals(RatingOps, ValUserSet, Followed, Accepted(RatingBodies)))

ValidationNext ==
  \/ MovieCheck(Validated)
  \/ FindRating(Validated)
  \/ PreSave(Validated)
  \/ SaveInsert(Validated)
  \/ SaveUpdate(Validated)
  \/ FindOneAndDelete(Validated)
  \/ AggregateRead(Validated)
  \/ MovieWrite(Validated)
  \/ \E kind \in {"create", "update"}, u \in ValUserSet, m \in Followed, body \in RatingBodies :
       RejectRating(kind, u, m, body)

ValidationSpec == Init /\ [][ValidationNext]_vars

\* ---- authentication -----------------------------------------------------

\* what the Authorization header of a request holds: nothing usable, a
\* token that jwt.verify rejects (bad signature, expired), or a token
\* signed for a user
Tokens(userIds) ==
  {[type |-> "none", userId |-> 0], [type |-> "invalid", userId |-> 0]} \cup
  {[type |-> "valid", userId |-> u] : u \in userIds}

RouteKinds == {"create", "update", "delete", "read", "userRatings", "stats", "list"}

\* every route is open
RequiresAuth_Open(kind) == FALSE

\* the routes of ratingRouter that name the authenticate middleware
RequiresAuth(kind) == kind \in {"create", "update", "delete", "read", "userRatings"}

\* a request as it enters its route: at the middleware, or at the handler
Entering(rs) == {[r EXCEPT !.pc = IF RequiresAuth(r.kind) THEN "auth" ELSE @] : r \in rs}

\* authenticate with no token or one that validateToken rejects: 401, and
\* the handler is not called
RejectToken(kind, token, movieId) ==
  /\ RequiresAuth(kind)
  /\ token.type # "valid"
  /\ resp' = Response(Request(kind, token.userId, movieId, 0), 401, FALSE, {"token"})
  /\ UNCHANGED <<ratings, movies, req, recomputeFailed, started, settled, accounts, favorites>>

\* authenticate with a token signed for r.userId: User.findById; 401 when
\* the account is inactive, otherwise next() calls the handler
Authenticate(callers) ==
  \E r \in callers :
    /\ r.pc = "auth"
    /\ IF accounts[r.userId].isActive
       THEN Goto(r, [r EXCEPT !.pc = FirstCall(r.kind)])
       ELSE Answer(r, 401, FALSE, {"account"})
    /\ UNCHANGED <<ratings, movies, recomputeFailed, settled>>
    /\ Counted(r)
    /\ UNCHANGED <<accounts, favorites>>

\* deleteAccount, by the user and with the right password: user.isActive =
\* false; user.save()
DeleteAccount(u) ==
  /\ accounts[u].isActive
  /\ accounts' = [accounts EXCEPT ![u].isActive = FALSE]
  /\ resp' = NoResp
  /\ UNCHANGED <<ratings, movies, req, recomputeFailed, started, settled, favorites>>

\* requests on one movie, one at a time, with any Authorization header;
\* accounts are deleted at any time
Routed ==
  OneAtATime(Entering(Arrivals(RatingOps, ValUserSet, Followed, Scores) \cup
                      Arrivals({"stats"}, {0}, Followed, {0})))

AuthNext ==
  \/ Authenticate(Routed)
  \/ MovieCheck(Routed)
  \/ FindRating(Routed)
  \/ PreSave(Routed)
  \/ SaveInsert(Routed)
  \/ SaveUpdate(Routed)
  \/ FindOneAndDelete(Routed)
  \/ AggregateRead(Routed)
  \/ MovieWrite(Routed)
  \/ StatsMovie(Routed)
  \/ StatsAggregate(Routed)
  \/ StatsDistribution(Routed)
  \/ \E kind \in RatingOps, token \in Tokens(ValUserSet), m \in Followed :
       RejectToken(kind, token, m)
  \/ \E u \in ValUserSet : DeleteAccount(u)

AuthSpec == Init /\ [][AuthNext]_vars

\* ---- requests on several movies ------------------------------------------

\* NumReqs requests of any accounts on any movies, in any interleaving, all
\* submissions with the highest score
AnyPair == Callers(Arrivals(RatingOps, PairUserSet, Movies, {MaxRating}))

PairNext ==
  \/ MovieCheck(AnyPair)
  \/ FindRating(AnyPair)
  \/ PreSave(AnyPair)
  \/ SaveInsert(AnyPair)
  \/ SaveUpdate(AnyPair)
  \/ FindOneAndDelete(AnyPair)
  \/ AggregateRead(AnyPair)
  \/ MovieWrite(AnyPair)

PairSpec == Init /\ [][PairNext]_vars

\* ---- the other writers of a movie document -------------------------------

\* the fields updateMovie deletes from the body
ProtectedFields == {"averageRating", "totalRatings", "views", "createdAt", "updatedAt"}

\* bodies of updateMovie: a new title, with or without values for the cache
UpdateBodies ==
  {[k \in K |-> CASE k = "title" -> 2
                 [] k = "averageRating" -> 10 * MaxRating
                 [] k = "totalRatings" -> 9] :
     K \in SUBSET {"title", "averageRating", "totalRatings"}}

\* the body as it came
StripProtected_Nothing(body) == body

\* delete updateData.averageRating; delete updateData.totalRatings; ...
StripProtected(body) == [k \in DOMAIN body \ ProtectedFields |-> body[k]]

\* { $set: fields } on a movie document
SetFields(doc, fields) ==
  LET value(f) == IF f \in DOMAIN fields THEN fields[f] ELSE doc[f]
  IN [isActive |-> value("isActive"), averageRating |-> value("averageRating"),
      totalRatings |-> value("totalRatings"), views |-> value("views"),
      title |-> value("title")]

\* updateMovie: Movie.findOneAndUpdate({ _id, isActive: true }, { $set: updateData });
\* 404 when there is no such movie
UpdateMovie(m, body) ==
  /\ IF movies[m].isActive
     THEN /\ movies' = [movies EXCEPT ![m] = SetFields(@, StripProtected(body))]
          /\ resp' = [NoResp EXCEPT !.kind = "updateMovie", !.movieId = m, !.status = 200,
                                    !.note = DOMAIN body \cap ProtectedFields]
     ELSE /\ movies' = movies
          /\ resp' = [NoResp EXCEPT !.kind = "updateMovie", !.movieId = m, !.status = 404]
  /\ started' = IF started >= NumReqs THEN started ELSE started + 1
  /\ UNCHANGED <<ratings, req, recomputeFailed, settled, accounts, favorites>>

\* the pre('save') hook of MovieSchema: Math.round(this.averageRating * 10) / 10
MovieSchemaPreSave(averageRating) == RoundToOneDecimal(averageRating, 10)

\* incrementMovieViews: Movie.findOne({ _id, isActive: true }), 404 without one
ViewLoad(callers) ==
  \E r \in callers :
    /\ r.pc = "viewLoad"
    /\ IF movies[r.movieId].isActive
       THEN Goto(r, [r EXCEPT !.pc = "viewSave",
                              !.loaded = movies[r.movieId].views,
                              !.stats = [average |-> movies[r.movieId].averageRating,
                                         total |-> movies[r.movieId].totalRatings]])
       ELSE Answer(r, 404, FALSE, {})
    /\ UNCHANGED <<ratings, movies, recomputeFailed, settled>>
    /\ Counted(r)
    /\ UNCHANGED <<accounts, favorites>>

\* movie.incrementViews(): this.views = (this.views || 0) + 1; this.save(),
\* which runs the pre('save') hook and sets the paths that were modified:
\* views, and averageRating if the hook changed the loaded value
ViewSave(callers) ==
  \E r \in callers :
    /\ r.pc = "viewSave"
    /\ LET doc == movies[r.movieId]
           rounded == MovieSchemaPreSave(r.stats.average)
       IN /\ movies' = [movies EXCEPT ![r.movieId] =
                 [doc EXCEPT !.views = r.loaded + 1,
                             !.averageRating = IF rounded # r.stats.average
                                               THEN rounded ELSE doc.averageRating]]
          /\ Answer(r, 200, FALSE,
                    IF [average |-> doc.averageRating, total |-> doc.totalRatings] # r.stats
                    THEN {"interleaved"} ELSE {})
    /\ UNCHANGED <<ratings, recomputeFailed, settled>>
    /\ Counted(r)
    /\ UNCHANGED <<accounts, favorites>>

\* NumReqs requests on one movie in any interleaving: rating requests, view
\* increments, updateMovie and deleteMovie
Writers ==
  Callers(Arrivals(RatingOps, ValUserSet, Followed, Scores) \cup
          Arrivals({"view"}, {0}, Followed, {0}))

MovieNext ==
  \/ MovieCheck(Writers)
  \/ FindRating(Writers)
  \/ PreSave(Writers)
  \/ SaveInsert(Writers)
  \/ SaveUpdate(Writers)
  \/ FindOneAndDelete(Writers)
  \/ AggregateRead(Writers)
  \/ MovieWrite(Writers)
  \/ ViewLoad(Writers)
  \/ ViewSave(Writers)
  \/ \E m \in Followed, body \in UpdateBodies : started < NumReqs /\ UpdateMovie(m, body)
  \/ \E m \in Followed : started < NumReqs /\ DeleteMovie(m)

MovieSpec == Init /\ [][MovieNext]_vars

\* ---- paginated lists ------------------------------------------------------

\* values of req.query.page and req.query.limit: absent, the numerals 0, 1,
\* 2, 100 and 101, and text that is no numeral
QueryValues ==
  {NoQueryValue, [type |-> "text", n |-> 0]} \cup
  {[type |-> "numeral", n |-> k] : k \in 0..2 \cup {100, 101}}

\* const { page = 1, limit = 12 } = req.query, then parseInt(value, 10)
ParseInt(value, default) ==
  CASE value.type = "absent" -> Num(default)
    [] value.type = "numeral" -> Num(value.n)
    [] value.type = "text" -> NaN

\* pageNum < 1 || limitNum < 1 || limitNum > 100; a comparison with NaN is false
InvalidPagination(pageNum, limitNum) ==
  \/ ~pageNum.nan /\ pageNum.n < 1
  \/ ~limitNum.nan /\ limitNum.n < 1
  \/ ~limitNum.nan /\ limitNum.n > 100

\* Math.ceil(total / limitNum)
TotalPages(total, limitNum) ==
  IF limitNum.nan THEN NaN ELSE Num((total + limitNum.n - 1) \div limitNum.n)

\* the number of documents find().limit(limitNum).skip((pageNum - 1) * limitNum)
\* returns out of total matching ones
PageLength(total, pageNum, limitNum) ==
  LET rest == total - (pageNum.n - 1) * limitNum.n
  IN IF rest <= 0 THEN 0 ELSE IF rest < limitNum.n THEN rest ELSE limitNum.n

\* what the request gets when NaN reaches limit() or skip(): the query is
\* refused as malformed by Mongoose (CastError, 400) or by the server
\* (MongoServerError, 500), or it runs with the option dropped
NaNOutcomes == {200, 400, 500}

\* the validation, the queries on the matching documents and the response
\* of getMovieRatings and getUserRatings; no rating is written meanwhile
Paginate(kind, userId, movieId, matching, visible, page, limit) ==
  LET pageNum == ParseInt(page, 1)
      limitNum == ParseInt(limit, 12)
      total == Cardinality(matching)
      r == Request("read", userId, movieId, 0)
      answer(status, note, returned) ==
        [Response(r, status, FALSE, note) EXCEPT
           !.kind = kind,
           !.pagination = [page |-> page, limit |-> limit,
                           totalPages |-> IF status = 200 THEN TotalPages(total, limitNum)
                                          ELSE Num(0),
                           totalRatings |-> IF status = 200 THEN total ELSE 0,
                           returned |-> returned]]
  IN IF InvalidPagination(pageNum, limitNum)
     THEN resp' = answer(400, {"pagination"}, 0)
     ELSE IF pageNum.nan \/ limitNum.nan
     THEN \E status \in NaNOutcomes, n \in 0..total :
            resp' = answer(status, {}, IF status = 200 THEN n ELSE 0)
     ELSE LET length == PageLength(total, pageNum, limitNum)
          IN \E n \in 0..length :
               /\ n = length \/ n >= Cardinality(visible) - (total - length)
               /\ n <= Cardinality(visible)
               /\ visible = matching => n = length
               /\ resp' = answer(200, {}, n)

\* getMovieRatings: Movie.findOne({ _id, isActive: true }), 404 without one;
\* then the page of the movie's ratings
GetMovieRatings(movieId, page, limit) ==
  /\ IF movies[movieId].isActive
     THEN Paginate("list", 0, movieId, RatingsOf(ratings, movieId),
                   RatingsOf(ratings, movieId), page, limit)
     ELSE resp' = [Response(Request("read", 0, movieId, 0), 404, FALSE, {}) EXCEPT
                     !.kind = "list"]
  /\ UNCHANGED <<ratings, movies, req, recomputeFailed, started, settled, accounts, favorites>>

\* getUserRatings: the page of the user's ratings, those of inactive movies
\* left out of the list but not of the total
GetUserRatings(userId, page, limit) ==
  /\ LET matching == {d \in ratings : d.userId = userId}
     IN Paginate("userRatings", userId, 0, matching,
                 {d \in matching : movies[d.movieId].isActive}, page, limit)
  /\ UNCHANGED <<ratings, movies, req, recomputeFailed, started, settled, accounts, favorites>>

PageNext ==
  \/ \E m \in Followed, page \in QueryValues, limit \in QueryValues :
       GetMovieRatings(m, page, limit)
  \/ \E u \in ValUserSet, page \in QueryValues, limit \in QueryValues :
       GetUserRatings(u, page, limit)

PageSpec == StatsInit /\ [][PageNext]_vars

\* ---- password reset: requestPasswordReset and resetPassword ---------------

\* the new passwords of reset requests: well formed, and equal to their
\* confirmPassword
Passwords == 1..2

\* the k-th token crypto.randomBytes(32) draws for user u: a value no other
\* draw gives
TokenOf(u, k) == <<u, k>>

\* the tokens a caller may submit: those issued and those not issued yet
TokenPool == {TokenOf(u, k) : u \in PairUserSet, k \in 1..NumReqs}

\* crypto.createHash('sha256').update(token).digest('hex')
Sha256(token) == <<"sha256", token>>

\* the tokens generated so far, all users together
Issued == Cardinality({t \in TokenPool : t[2] <= accounts[t[1]].issued})

\* the response of requestPasswordReset, 404 when no user has the e-mail
ForgotResponse_NotFound(found) ==
  IF found THEN [status |-> 200, message |-> "auth.passwordResetRequested"]
  ELSE [status |-> 404, message |-> "auth.userNotFound"]

\* the response of requestPasswordReset: built before the user is looked at,
\* the same status and body whether findOne found one
ForgotResponse(found) == [status |-> 200, message |-> "auth.passwordResetRequested"]

\* the numbers of the tokens of user u whose hash is the stored one
Current(user, u) ==
  {k \in 1..user.issued : Sha256(TokenOf(u, k)) = user.passwordResetToken}

\* resetPassword's changes to the user it loaded: the token is kept
AfterReset_KeepsToken(user, newPassword) == [user EXCEPT !.password = newPassword]

\* resetPassword's changes to the user it loaded: the new password, and
\* passwordResetToken and passwordResetExpires undefined
AfterReset(user, newPassword) ==
  [user EXCEPT !.password = newPassword, !.passwordResetToken = NoToken,
               !.passwordResetExpires = "none"]

\* user.isPasswordResetTokenValid(token): a stored token and expiry, the hash
\* of the submitted token equal to the stored one, the expiry in the future
isPasswordResetTokenValid(user, token) ==
  /\ user.passwordResetToken # NoToken
  /\ user.passwordResetExpires # "none"
  /\ Sha256(token) = user.passwordResetToken
  /\ user.passwordResetExpires = "future"

\* requestPasswordReset: User.findOne({ email, isActive: true }), the e-mail
\* being that of account r.userId (of none when it is 0); without a user the
\* response is sent at once
ForgotFind(callers) ==
  \E r \in callers :
    /\ r.pc = "forgotFind"
    /\ (r.userId \in PairUserSet /\ accounts[r.userId].isActive) => Issued < NumReqs
    /\ IF r.userId \in PairUserSet /\ accounts[r.userId].isActive
       THEN Goto(r, [r EXCEPT !.pc = "forgotSave", !.loaded = r.userId])
       ELSE Answer(r, ForgotResponse(FALSE).status, FALSE, {ForgotResponse(FALSE).message})
    /\ UNCHANGED <<ratings, movies, recomputeFailed, settled, accounts, favorites>>
    /\ Counted(r)

\* user.generatePasswordResetToken(); user.save({ validateBeforeSave: false });
\* emailService.sendPasswordResetEmail, whose failure is swallowed; the
\* response
ForgotSave(callers) ==
  \E r \in callers :
    /\ r.pc = "forgotSave"
    /\ LET user == accounts[r.loaded]
           resetToken == TokenOf(r.loaded, user.issued + 1)
       IN accounts' = [accounts EXCEPT ![r.loaded] =
            [user EXCEPT !.passwordResetToken = Sha256(resetToken),
                         !.passwordResetExpires = "future",
                         !.issued = @ + 1,
                         !.spent = @ \cup Current(user, r.loaded)]]
    /\ Answer(r, ForgotResponse(TRUE).status, FALSE, {ForgotResponse(TRUE).message})
    /\ UNCHANGED <<ratings, movies, recomputeFailed, settled, favorites>>
    /\ Counted(r)

\* resetPassword: User.findOne({ isActive: true }), a query with no condition
\* on the token and no sort, which gives one of the active users; 400 without
\* one or when the submitted token is not a valid token of that user
ResetFind(callers) ==
  \E r \in callers :
    /\ r.pc = "resetFind"
    /\ LET active == {u \in PairUserSet : accounts[u].isActive}
       IN IF active = {}
          THEN Answer(r, 400, FALSE, {})
          ELSE \E u \in active :
                 IF isPasswordResetTokenValid(accounts[u], r.token)
                 THEN Goto(r, [r EXCEPT !.pc = "resetSave", !.loaded = u])
                 ELSE Answer(r, 400, FALSE, {})
    /\ UNCHANGED <<ratings, movies, recomputeFailed, settled, accounts, favorites>>
    /\ Counted(r)

\* user.save() of the loaded user with its new password and cleared token;
\* the confirmation e-mail; 200
ResetSave(callers) ==
  \E r \in callers :
    /\ r.pc = "resetSave"
    /\ LET user == accounts[r.loaded]
           saved == AfterReset(user, r.password)
       IN accounts' = [accounts EXCEPT ![r.loaded] =
            [user EXCEPT !.password = saved.password,
                         !.passwordResetToken = saved.passwordResetToken,
                         !.passwordResetExpires = saved.passwordResetExpires,
                         !.spent = @ \cup Current(user, r.loaded)]]
    /\ Answer(r, 200, FALSE, {})
    /\ UNCHANGED <<ratings, movies, recomputeFailed, settled, favorites>>
    /\ Counted(r)

\* an hour passes since the token of user u was generated: Date.now() is
\* past its passwordResetExpires
TokenExpires(u) ==
  /\ accounts[u].passwordResetExpires = "future"
  /\ accounts' = [accounts EXCEPT ![u].passwordResetExpires = "past"]
  /\ resp' = NoResp
  /\ UNCHANGED <<ratings, movies, req, recomputeFailed, started, settled, favorites>>

\* reset requests, one at a time: requestPasswordReset with the e-mail of an
\* account or of none, resetPassword with any token and new password
Resetting ==
  OneAtATime({Request("forgot", u, 0, 0) : u \in {0} \cup PairUserSet} \cup
             {[Request("reset", 0, 0, 0) EXCEPT !.token = t, !.password = p] :
                t \in TokenPool, p \in Passwords})

ResetNext ==
  \/ ForgotFind(Resetting)
  \/ ForgotSave(Resetting)
  \/ ResetFind(Resetting)
  \/ ResetSave(Resetting)
  \/ \E u \in PairUserSet : TokenExpires(u)
  \/ \E u \in PairUserSet : DeleteAccount(u)

ResetSpec == Init /\ [][ResetNext]_vars

\* ---- movie administration: POST, PUT and DELETE of movieRouter -----------

AdminKinds == {"createMovie", "updateMovie", "deleteMovie"}

\* the middleware movieRouter names before the handler of an administration
\* route: movieRouter.post('/', movieController.createMovie.bind(..)) and
\* the like, none
MovieRouteMiddleware(kind) == {}

\* no document of the collection: a movie not created yet
NoMovie ==
  [isActive |-> FALSE, averageRating |-> 0, totalRatings |-> 0, views |-> 0, title |-> 0]

Exists(m) == movies[m].title # 0

\* bodies of createMovie: with or without the required fields (the title
\* stands for them), with or without values for the cache; averageRating in
\* hundredths, 4.25 and 6
CreateBodies ==
  {[k \in K |-> CASE k = "title" -> 1
                 [] k = "averageRating" -> a
                 [] k = "totalRatings" -> 7] :
     K \in SUBSET {"title", "averageRating", "totalRatings"}, a \in {425, 600}}

\* the schema validation of a new movie: averageRating within 0..5
\* (totalRatings and views of the bodies here are whole and not negative)
MovieIsValid(body) ==
  "averageRating" \in DOMAIN body => body.averageRating <= 100 * MaxRating

\* new Movie(movieData) as save() stores it: the schema defaults under the
\* fields of the body, averageRating rounded to one decimal by the
\* pre('save') hook
NewMovieFrom(body) ==
  [SetFields(NewMovie, body) EXCEPT
     !.averageRating = IF "averageRating" \in DOMAIN body
                       THEN RoundToOneDecimal(body.averageRating, 100) ELSE @]

\* the response of an administration request, with what its Authorization
\* header held
AdminResponse(kind, token, m, status) ==
  [NoResp EXCEPT !.kind = kind, !.userId = token.userId, !.movieId = m,
                 !.status = status, !.note = {token.type}]

\* the authenticate middleware, where the route names it: 401 without a
\* valid token, and the handler is not called
Refused(kind, token) ==
  "authenticate" \in MovieRouteMiddleware(kind) /\ token.type # "valid"

\* POST /api/movies, createMovie: 400 when a required field is missing;
\* new Movie(movieData); movie.save(), 422 when the validation fails; 201
CreateMovie(token, body) ==
  /\ \E m \in Movies : ~Exists(m)
  /\ LET m == CHOOSE i \in Movies : ~Exists(i) /\ \A j \in Movies : j < i => Exists(j)
     IN IF Refused("createMovie", token)
        THEN movies' = movies /\ resp' = AdminResponse("createMovie", token, 0, 401)
        ELSE IF "title" \notin DOMAIN body
        THEN movies' = movies /\ resp' = AdminResponse("createMovie", token, 0, 400)
        ELSE IF ~MovieIsValid(body)
        THEN movies' = movies /\ resp' = AdminResponse("createMovie", token, 0, 422)
        ELSE /\ movies' = [movies EXCEPT ![m] = NewMovieFrom(body)]
             /\ resp' = AdminResponse("createMovie", token, m, 201)
  /\ UNCHANGED <<ratings, req, recomputeFailed, started, settled, accounts, favorites>>

\* PUT /api/movies/:id, updateMovie
UpdateMovieRoute(token, m, body) ==
  /\ IF Refused("updateMovie", token)
     THEN movies' = movies /\ resp' = AdminResponse("updateMovie", token, m, 401)
     ELSE IF movies[m].isActive
     THEN /\ movies' = [movies EXCEPT ![m] = SetFields(@, StripProtected(body))]
          /\ resp' = AdminResponse("updateMovie", token, m, 200)
     ELSE movies' = movies /\ resp' = AdminResponse("updateMovie", token, m, 404)
  /\ UNCHANGED <<ratings, req, recomputeFailed, started, settled, accounts, favorites>>

\* DELETE /api/movies/:id, deleteMovie: 404 when no active movie has the id
DeleteMovieRoute(token, m) ==
  /\ IF Refused("deleteMovie", token)
     THEN movies' = movies /\ resp' = AdminResponse("deleteMovie", token, m, 401)
     ELSE IF movies[m].isActive
     THEN /\ movies' = [movies EXCEPT ![m].isActive = FALSE]
          /\ resp' = AdminResponse("deleteMovie", token, m, 200)
     ELSE movies' = movies /\ resp' = AdminResponse("deleteMovie", token, m, 404)
  /\ UNCHANGED <<ratings, req, recomputeFailed, started, settled, accounts, favorites>>

\* an empty movie collection
AdminInit ==
  /\ ratings = {}
  /\ movies = [m \in Movies |-> NoMovie]
  /\ req = EmptyBag
  /\ resp = NoResp
  /\ started = 0
  /\ recomputeFailed = [m \in Movies |-> FALSE]
  /\ settled = [m \in Movies |-> FALSE]
  /\ accounts = [u \in AllUsers |-> NewUser]
  /\ favorites = {}

AdminNext ==
  \/ \E token \in Tokens(ValUserSet), body \in CreateBodies : CreateMovie(token, body)
  \/ \E token \in Tokens(ValUserSet), m \in Movies, body \in UpdateBodies :
       UpdateMovieRoute(token, m, body)
  \/ \E token \in Tokens(ValUserSet), m \in Movies : DeleteMovieRoute(token, m)

AdminSpec == AdminInit /\ [][AdminNext]_vars

\* ---- favorites: addFavorite and removeFavorite ---------------------------

FavoritesOfPair(favs, userId, movieId) ==
  {d \in favs : d.userId = userId /\ d.movieId = movieId}

\* no unique index on the Favorite collection
FavoriteIndexViolated_NotUnique(favs, doc) == FALSE

\* FavoriteSchema.index({ userId: 1, movieId: 1 }, { unique: true }): the
\* insert of doc fails with E11000 when a document of its pair is stored
FavoriteIndexViolated(favs, doc) ==
  FavoritesOfPair(favs, doc.userId, doc.movieId) # {}

\* what the caller of addFavorite is answered for a pair already favorited:
\* createError(.., 409) of the controller, and for the E11000 of save() the
\* error of the post('save') error handler, whose statusCode and message the
\* error middleware sends
AlreadyInFavorites == [status |-> 409, message |-> "Movie already in favorites"]

\* addFavorite: Movie.findOne({ _id: movieId, isActive: true }), 404 without one
FavMovieCheck(callers) ==
  \E r \in callers :
    /\ r.pc = "favMovie"
    /\ IF movies[r.movieId].isActive
       THEN Goto(r, [r EXCEPT !.pc = "favFind"])
       ELSE Answer(r, 404, FALSE, {"Movie not found"})
    /\ UNCHANGED <<ratings, movies, recomputeFailed, settled, accounts, favorites>>
    /\ Counted(r)

\* Favorite.findOne({ userId, movieId }): 409 when there is one
FavFind(callers) ==
  \E r \in callers :
    /\ r.pc = "favFind"
    /\ IF FavoritesOfPair(favorites, r.userId, r.movieId) # {}
       THEN Answer(r, AlreadyInFavorites.status, FALSE, {AlreadyInFavorites.message})
       ELSE Goto(r, [r EXCEPT !.pc = "favPreSave"])
    /\ UNCHANGED <<ratings, movies, recomputeFailed, settled, accounts, favorites>>
    /\ Counted(r)

\* favorite.save(), its pre('save') hooks: Movie.findById, 400 for an
\* inactive movie, and User.findById, which finds the user of the token
\* (accounts are only ever deactivated)
FavPreSave(callers) ==
  \E r \in callers :
    /\ r.pc = "favPreSave"
    /\ IF movies[r.movieId].isActive
       THEN Goto(r, [r EXCEPT !.pc = "favInsert"])
       ELSE Answer(r, 400, FALSE, {"Cannot favorite an inactive movie"})
    /\ UNCHANGED <<ratings, movies, recomputeFailed, settled, accounts, favorites>>
    /\ Counted(r)

\* favorite.save(), the insert: the document is stored and the answer is
\* 201, or the unique index refuses it and the post('save') error handler
\* turns the E11000 into the 409 error (hookFailed: the error came through
\* that handler)
FavInsert(callers) ==
  \E r \in callers :
    /\ r.pc = "favInsert"
    /\ LET doc == [userId |-> r.userId, movieId |-> r.movieId,
                   id |-> 1 + Cardinality(FavoritesOfPair(favorites, r.userId, r.movieId))]
       IN IF FavoriteIndexViolated(favorites, doc)
          THEN /\ favorites' = favorites
               /\ resp' = Response(r, AlreadyInFavorites.status, TRUE,
                                   {AlreadyInFavorites.message})
          ELSE /\ favorites' = favorites \cup {doc}
               /\ resp' = Response([r EXCEPT !.committed = TRUE], 201, FALSE, {})
    /\ req' = Others(r)
    /\ UNCHANGED <<ratings, movies, recomputeFailed, settled, accounts>>
    /\ Counted(r)

\* removeFavorite: Favorite.findOneAndDelete({ userId, movieId }), 404 when
\* there is none
RemoveFavorite(userId, movieId) ==
  /\ started < NumReqs
  /\ favorites' = favorites \ FavoritesOfPair(favorites, userId, movieId)
  /\ resp' = [NoResp EXCEPT !.kind = "unfavorite", !.userId = userId, !.movieId = movieId,
                !.status = IF FavoritesOfPair(favorites, userId, movieId) = {}
                           THEN 404 ELSE 200]
  /\ started' = started + 1
  /\ UNCHANGED <<ratings, movies, req, recomputeFailed, settled, accounts>>

\* NumReqs requests on the favorites of any movies, in any interleaving; a
\* removeFavorite or a deleteMovie, a single call each, is one of them
Favoriting == Callers(Arrivals({"favorite"}, PairUserSet, Movies, {0}))

FavNext ==
  \/ FavMovieCheck(Favoriting)
  \/ FavFind(Favoriting)
  \/ FavPreSave(Favoriting)
  \/ FavInsert(Favoriting)
  \/ \E u \in PairUserSet, m \in Movies : RemoveFavorite(u, m)
  \/ \E m \in Movies : started < NumReqs /\ DeleteMovie(m)

FavSpec == Init /\ [][FavNext]_vars

\* ---- reading the cache: GET /api/movies/:id/stats -------------------------

\* getMovieStatistics of the movie controller: Movie.findOne({ _id, isActive:
\* true }), 404 without one, else 200 with the movie's averageRating and
\* totalRatings as stored (afterWrite: the step before was the success
\* response of a rating request on the movie)
GetMovieStatistics(movieId) ==
  /\ req = EmptyBag
  /\ resp' = [NoResp EXCEPT
       !.kind = "movieStats", !.movieId = movieId,
       !.status = IF movies[movieId].isActive THEN 200 ELSE 404,
       !.stats = IF movies[movieId].isActive
                 THEN [average |-> movies[movieId].averageRating,
                       total |-> movies[movieId].totalRatings]
                 ELSE NoStats,
       !.note = IF resp.kind \in RatingOps /\ resp.status \in {200, 201}
                   /\ resp.movieId = movieId
                THEN {"afterWrite"} ELSE {}]
  /\ UNCHANGED <<ratings, movies, req, recomputeFailed, started, settled, accounts,
                 favorites>>

ReadNext ==
  \/ MovieCheck(Healing)
  \/ FindRating(Healing)
  \/ PreSave(Healing)
  \/ SaveInsert(Healing)
  \/ SaveUpdate(Healing)
  \/ FindOneAndDelete(Healing)
  \/ WriteFails(Healing)
  \/ AggregateRead(Healing)
  \/ MovieWrite(Healing)
  \/ RecomputeFails(Healing)
  \/ \E m \in Followed : DeleteMovie(m)
  \/ \E m \in Followed : GetMovieStatistics(m)

ReadSpec == Init /\ [][ReadNext]_vars

\* ---- the claims ----------------------------------------------------------

Cached(mv) == [average |-> mv.averageRating, total |-> mv.totalRatings]

CountOfScore(rs, s) == Cardinality({r \in rs : r.rating = s})

\* the sum of the scores of rs, score by score
ScoreSum(rs) ==
  CountOfScore(rs, 1) + 2 * CountOfScore(rs, 2) + 3 * CountOfScore(rs, 3)
    + 4 * CountOfScore(rs, 4) + 5 * CountOfScore(rs, 5)

\* st is the count of rs and, in tenths, the mean of its scores rounded to
\* the nearest tenth, a half going up: mean - 1/2 < average <= mean + 1/2,
\* the mean in tenths being 10 * sum / n; (0, 0) when rs is empty
IsAggregateOf(st, rs) ==
  LET n == Cardinality(rs)
      sum == ScoreSum(rs)
  IN /\ st.total = n
     /\ n = 0 => st.average = 0
     /\ n > 0 => /\ 2 * st.average * n > 20 * sum - n
                 /\ 2 * st.average * n <= 20 * sum + n

Quiescent == req = EmptyBag

Succeeded(r) == r.kind \in RatingOps /\ r.status \in {200, 201}

\* the step is a call of request r, in flight before it
Moves(r) == CopiesIn(r, req') < CopiesIn(r, req)

\* the request the step has put in flight: the caller, gone on to its next call
Entered == {s \in BagToSet(req') : CopiesIn(s, req') > CopiesIn(s, req)}

\* C1: once every started request has finished and no recompute has failed,
\* the cached averageRating / totalRatings of every movie are the rounded
\* mean and the count of the ratings stored for it.
C1_QuiescentCacheConsistent ==
  \A m \in Movies :
    (Quiescent /\ ~recomputeFailed[m]) =>
      IsAggregateOf(Cached(movies[m]), RatingsOf(ratings, m))

\* C2: a createRating whose insert loses the race against another first
\* createRating of the same pair is not answered with an error (the 409 of
\* the duplicate key is the only answer such a loser can get here).
C2_InsertRaceLoserNotAnError ==
  ~(resp.kind = "create" /\ resp.status = 409)

\* C3: no (userId, movieId) pair ever has two Rating documents, and the
\* save / insert of a createRating on a pair that has a document leaves the
\* pair with that one document carrying the submitted score (a storage
\* failure, answered 500, aside).
C3_UniqueAndSecondSubmitUpdates ==
  [][/\ \A u \in Users, m \in Movies :
          Cardinality(RatingsOfPair(ratings', u, m)) <= 1
     /\ \A r \in InFlight :
          (/\ r.kind = "create" /\ r.pc = "write" /\ Moves(r)
           /\ RatingsOfPair(ratings, r.userId, r.movieId) # {}
           /\ resp'.status # 500)
          => /\ {d.id : d \in RatingsOfPair(ratings', r.userId, r.movieId)}
                  = {d.id : d \in RatingsOfPair(ratings, r.userId, r.movieId)}
             /\ \A d \in RatingsOfPair(ratings', r.userId, r.movieId) :
                  d.rating = r.rating]_vars

\* C4: with requests running one at a time and no recompute failing, after
\* every successful create, update or delete the cache of the movie is the
\* (rounded mean, count) of its stored ratings: a single 4 gives (4.0, 1),
\* 5, 4, 5 gives (4.7, 3), 4, 5 gives (4.5, 2), no rating gives (0, 0).
C4_SequentialCacheCorrect ==
  \A m \in Movies :
    (Succeeded(resp) /\ resp.movieId = m /\ ~recomputeFailed[m]) =>
      LET rs == RatingsOf(ratings, m)
          n == Cardinality(rs)
          sum == ScoreSum(rs)
          c == Cached(movies[m])
      IN /\ IsAggregateOf(c, rs)
         /\ (n = 1 /\ sum = 4) => c = [average |-> 40, total |-> 1]
         /\ (n = 3 /\ sum = 14) => c = [average |-> 47, total |-> 3]
         /\ (n = 2 /\ sum = 9) => c = [average |-> 45, total |-> 2]
         /\ n = 0 => c = [average |-> 0, total |-> 0]

\* an update has just turned 3, 4, 5 into 5, 4, 5
C4_Witness ==
  /\ resp.kind = "update" /\ resp.status = 200 /\ resp.committed
  /\ CountOfScore(RatingsOf(ratings, resp.movieId), 5) = 2
  /\ CountOfScore(RatingsOf(ratings, resp.movieId), 4) = 1
  /\ Cached(movies[resp.movieId]) = [average |-> 47, total |-> 3]

\* C5: the statistics that getMovieStatistics returns for an active movie
\* are the count and the rounded mean (halves up) of the Rating documents
\* stored at the moment of its aggregate query, (0, 0) when there are none,
\* whatever the movie's cached fields hold.
C5_StatisticsFromRatings ==
  [][\A r \in InFlight :
       /\ (r.pc = "statsAgg" /\ Moves(r))
            => /\ Entered # {}
               /\ \A s \in Entered :
                    IsAggregateOf(s.stats, RatingsOf(ratings, r.movieId))
       /\ (r.pc = "statsDist" /\ Moves(r))
            => resp'.status = 200 /\ resp'.stats = r.stats]_vars

\* the mean 4.25 of 5, 4, 4, 4 is reported as 4.3 while the cache says (0, 0)
C5_Witness ==
  /\ resp.kind = "stats" /\ resp.status = 200
  /\ resp.stats = [average |-> 43, total |-> 4]
  /\ Cached(movies[resp.movieId]) = [average |-> 0, total |-> 0]

\* C6: a request that has committed a rating write is in, or has been
\* through, exactly one recompute attempt, entered after the commit; a
\* request whose save or delete did not go through, and any request answered
\* with an error, has attempted none and committed nothing.
C6_OneRecomputePerCommit ==
  /\ \A r \in InFlight :
       /\ r.recomputes <= 1
       /\ r.committed => r.recomputes = 1
       /\ r.recomputes = 1 => r.writeOk
       /\ r.recomputes = 1 <=> r.pc \in {"agg", "movieWrite"}
  /\ resp.recomputes <= 1
  /\ resp.committed => resp.recomputes = 1
  /\ resp.recomputes = 1 => resp.writeOk
  /\ resp.status >= 400 => (resp.recomputes = 0 /\ ~resp.committed)

C6_Witness ==
  /\ resp.kind = "delete" /\ resp.status = 200
  /\ resp.committed /\ resp.recomputes = 1

\* C7: when the recompute after a rating write fails, the request answers
\* with its success status (201 for a created rating, 200 otherwise) and
\* the failing step leaves the Rating store as the write left it.
C7_RecomputeFailureTolerated ==
  [][resp'.hookFailed =>
       /\ resp'.status \in {200, 201}
       /\ resp'.kind # "create" => resp'.status = 200
       /\ ratings' = ratings]_vars

C7_Witness ==
  /\ resp.hookFailed /\ resp.committed
  /\ resp.kind = "create" /\ resp.status = 201
  /\ RatingsOf(ratings, resp.movieId) # {}

\* C8: a recompute that completes with no other rating operation in flight
\* (requests run one at a time) leaves the cache of the movie equal to the
\* aggregate of its stored ratings, whatever a failed recompute left there.
C8_SelfHealing ==
  [][\A r \in InFlight :
       (r.pc = "movieWrite" /\ Moves(r) /\ ~resp'.hookFailed)
         => IsAggregateOf(Cached(movies'[r.movieId]),
                          RatingsOf(ratings', r.movieId))]_vars

C8_Witness ==
  /\ "healed" \in resp.note
  /\ recomputeFailed[resp.movieId]
  /\ IsAggregateOf(Cached(movies[resp.movieId]), RatingsOf(ratings, resp.movieId))

\* C9: a recompute that follows a completed recompute of the same movie with
\* no rating write in between writes the values that are already cached.
C9_RecomputeIdempotent ==
  [][\A r \in InFlight :
       (r.pc = "movieWrite" /\ Moves(r) /\ ~resp'.hookFailed /\ settled[r.movieId])
         => Cached(movies'[r.movieId]) = Cached(movies[r.movieId])]_vars

C9_Witness ==
  /\ "repeated" \in resp.note
  /\ resp.recomputes = 1 /\ ~resp.hookFailed

\* C10: the pair a recompute writes is the (rounded mean, count) of the
\* movie's ratings as they stood at the instant of its aggregate query:
\* the query takes both from one rating set and the write stores them as
\* read.
C10_SnapshotValidity ==
  [][\A r \in InFlight :
       /\ (r.pc = "agg" /\ Moves(r))
            => \A s \in Entered :
                 IsAggregateOf(s.stats, RatingsOf(ratings, r.movieId))
       /\ (r.pc = "movieWrite" /\ Moves(r) /\ ~resp'.hookFailed)
            => Cached(movies'[r.movieId]) = r.stats]_vars

\* a recompute has just written a snapshot that a later rating write had
\* already left behind
C10_Witness ==
  /\ Succeeded(resp) /\ resp.recomputes = 1 /\ ~resp.hookFailed
  /\ ~recomputeFailed[resp.movieId]
  /\ ~IsAggregateOf(Cached(movies[resp.movieId]), RatingsOf(ratings, resp.movieId))
  /\ Cached(movies[resp.movieId]).total > 0

\* the scores getUserRatingForMovie may report for a pair: none when the pair
\* has no document
StoredScores(rs, userId, movieId) ==
  {d.rating : d \in RatingsOfPair(rs, userId, movieId)}

\* the request that has just committed a rating write, if the step is one
JustCommitted == {s \in Entered : s.pc = "agg" /\ s.committed}

PairOf(rs, r) == RatingsOfPair(rs, r.userId, r.movieId)

\* C12: with the requests on a pair running one at a time, the movie active
\* and storage up: a createRating that found no document of the pair has
\* inserted one with its score and answers 201; one that found a document
\* answers 200, the pair keeping that one document (same id) with the
\* submitted score; a deleteRating on a pair with a document removes it and
\* answers 200, on a pair with none it answers 404; and the pair has a
\* document exactly when createRating's findOne says so.
C12_RatingLifeCycle ==
  [][/\ \A r \in InFlight :
          /\ (r.kind = "create" /\ r.pc = "findRating" /\ Moves(r))
               => \A s \in Entered : s.existing # 0 <=> PairOf(ratings, r) # {}
          /\ (r.kind = "create" /\ Moves(r) /\ Succeeded(resp'))
               => /\ resp'.status = IF r.existing = 0 THEN 201 ELSE 200
                  /\ Cardinality(PairOf(ratings', r)) = 1
                  /\ \A d \in PairOf(ratings', r) :
                       /\ d.rating = r.rating
                       /\ r.existing # 0 => d.id = r.existing
          /\ (r.kind = "create" /\ Moves(r) /\ resp'.kind = "create")
               => resp'.status \in {200, 201, 400, 500}
          /\ (r.kind = "delete" /\ Moves(r) /\ resp'.kind = "delete")
               => resp'.status = 200 /\ PairOf(ratings', r) = {}
     /\ \A s \in JustCommitted :
          s.kind = "delete" =>
            /\ PairOf(ratings, s) # {} /\ PairOf(ratings', s) = {}
            /\ Cardinality(ratings') = Cardinality(ratings) - 1
     /\ (resp'.kind = "delete" /\ resp'.status = 404)
          => RatingsOfPair(ratings, resp'.userId, resp'.movieId) = {}]_vars

\* a createRating on a rated pair answered 200, the pair's one document now
\* holding the submitted score and another user's document untouched
C12_Witness ==
  /\ resp.kind = "create" /\ resp.status = 200 /\ resp.committed
  /\ \E d \in RatingsOfPair(ratings, resp.userId, resp.movieId) :
       d.rating = resp.rating
  /\ Cardinality(ratings) = 2

\* C13: a Rating document is never inserted for a movie whose isActive is
\* false at the moment the insert commits.
C13_NoRatingForInactiveMovie ==
  [][\A s \in JustCommitted :
       (s.kind = "create" /\ s.existing = 0) => movies[s.movieId].isActive]_vars

\* C14: a submission with a valid score for an inactive movie is answered
\* 404 and changes nothing: a createRating arriving for an inactive movie, and
\* an updateRating on an existing rating whose save() finds the movie
\* inactive.
C14_InactiveMovieNotFound ==
  [][/\ (resp'.kind = "create" /\ req' = req /\ ~movies[resp'.movieId].isActive)
          => resp'.status = 404 /\ ratings' = ratings /\ movies' = movies
     /\ \A r \in InFlight :
          (/\ r.kind = "update" /\ r.pc = "preSave" /\ Moves(r)
           /\ ~movies[r.movieId].isActive)
            => resp'.status = 404 /\ ratings' = ratings /\ movies' = movies]_vars

\* C15: a deleteRating for a pair without a document answers 404 at once:
\* it removes no document of any pair, goes on to no recompute and changes
\* no movie's cache; and 404 is answered only for such a pair.
C15_DeleteNonexistent ==
  [][/\ resp'.kind = "delete" /\ resp'.status = 404
          => /\ RatingsOfPair(ratings, resp'.userId, resp'.movieId) = {}
             /\ ratings' = ratings /\ movies' = movies
             /\ resp'.recomputes = 0 /\ Entered = {}
     /\ \A u \in Users, m \in Movies :
          (/\ RatingsOfPair(ratings, u, m) = {}
           /\ \/ /\ req' = req
                 /\ resp'.kind = "delete" /\ resp'.userId = u /\ resp'.movieId = m
              \/ \E s \in Entered : /\ s.kind = "delete" /\ s.pc = "agg"
                                     /\ s.userId = u /\ s.movieId = m)
            => /\ resp'.kind = "delete" /\ resp'.status \in {404, 500}
               /\ Entered = {}
               /\ ratings' = ratings /\ movies' = movies]_vars

\* a deleteRating answered 404 while another user's rating and the cache
\* built from it stay in place
C15_Witness ==
  /\ resp.kind = "delete" /\ resp.status = 404
  /\ Cardinality(ratings) = 1
  /\ \E m \in Movies : movies[m].totalRatings = 1

\* C16: createRating and updateRating answer a rating that is absent, not a
\* number, not whole or outside 1..5 with 400 in a step that touches nothing;
\* 0, 6, 2.5, "3" and an absent rating fail the check, 1 and 5 pass it; and
\* every stored Rating document has a score in 1..5.
C16_ScoreValidation ==
  [][/\ \A d \in ratings' : d.rating \in MinRating..MaxRating
     /\ \A b \in RatingBodies :
          RatingIsValid(b) <=>
            b \in {[type |-> "number", tenths |-> 10 * s] : s \in MinRating..MaxRating}
     /\ "validation" \in resp'.note
          => /\ resp'.status = 400 /\ resp'.kind \in {"create", "update"}
             /\ ratings' = ratings /\ movies' = movies /\ req' = req
     /\ \A s \in Entered : s.kind \in {"create", "update"}
          => s.rating \in MinRating..MaxRating]_vars

\* an updateRating rejected while the pair holds the highest score, which
\* stays stored and cached
C16_Witness ==
  /\ "validation" \in resp.note /\ resp.kind = "update"
  /\ \E d \in RatingsOfPair(ratings, resp.userId, resp.movieId) :
       /\ d.rating = MaxRating
       /\ movies[d.movieId].averageRating = 10 * MaxRating

\* C17: a createRating, updateRating or deleteRating request without a
\* token, with a token that does not verify, or with the token of an account
\* found inactive is answered 401 in a step that changes no rating and no
\* movie; the handlers of these routes run only for a request that passed
\* the middleware, which it does only with the token of an active account;
\* and the routes without the middleware are the statistics and the rating
\* list of a movie.
C17_UnauthenticatedNeverMutate ==
  [][/\ resp'.note \cap {"token", "account"} # {}
          => /\ resp'.status = 401
             /\ ratings' = ratings /\ movies' = movies /\ Entered = {}
     /\ "account" \in resp'.note => ~accounts[resp'.userId].isActive
     /\ (resp'.kind \in RatingOps /\ req' = req)
          => resp'.status = 401 /\ resp'.note \cap {"token", "account"} # {}
     /\ \A s \in Entered : s.kind \in RatingOps =>
          \/ s.pc = FirstCall(s.kind) /\ accounts[s.userId].isActive
          \/ \E r \in InFlight : /\ Moves(r) /\ r.pc # "auth"
                                  /\ r.kind = s.kind /\ r.userId = s.userId
     /\ (ratings' # ratings \/ movies' # movies)
          => \/ \E r \in InFlight : Moves(r) /\ r.pc # "auth"
             \/ \A m \in Movies : Cached(movies'[m]) = Cached(movies[m])
     /\ {kind \in RouteKinds : ~RequiresAuth(kind)} = {"stats", "list"}]_vars

\* the deleteRating of a user whose account was deleted is answered 401; the
\* user's rating and the movie's cache stay
C17_Witness ==
  /\ "account" \in resp.note /\ resp.kind = "delete" /\ resp.status = 401
  /\ RatingsOfPair(ratings, resp.userId, resp.movieId) # {}
  /\ movies[resp.movieId].totalRatings = 1

\* the pairs whose request makes the step: the request in flight that
\* moves, or the one that arrives
ActingPairs ==
  {<<r.userId, r.movieId>> : r \in {x \in InFlight : Moves(x)}} \cup
  {<<s.userId, s.movieId>> : s \in Entered} \cup
  (IF resp'.kind \in RatingOps THEN {<<resp'.userId, resp'.movieId>>} ELSE {})

\* C18: a step of a createRating, updateRating or deleteRating request of the
\* pair (u, m) changes the Rating documents of no other pair and the cached
\* averageRating / totalRatings of no movie other than m, whatever requests
\* on other pairs are in flight.
C18_CrossPairIndependence ==
  [][/\ Cardinality(ActingPairs) <= 1
     /\ \A u \in PairUserSet, m \in Movies :
          {d \in ratings' : d.userId = u /\ d.movieId = m}
              # {d \in ratings : d.userId = u /\ d.movieId = m}
            => <<u, m>> \in ActingPairs
     /\ \A m \in Movies :
          movies'[m] # movies[m] => \E p \in ActingPairs : p[2] = m]_vars

\* a request that wrote a rating answers while the request of another user
\* on another movie, its rating written, is between the two calls of its
\* recompute
C18_Witness ==
  /\ resp.kind \in RatingOps /\ resp.committed
  /\ movies[resp.movieId].totalRatings = 1
  /\ \E q \in InFlight :
       /\ q.movieId # resp.movieId /\ q.userId # resp.userId
       /\ q.committed /\ q.pc = "movieWrite"
       /\ RatingsOfPair(ratings, q.userId, q.movieId) # {}

\* C19: averageRating and totalRatings of a movie change only in the write
\* of updateMovieRating, to the values its aggregate query returned;
\* updateMovie (whatever its body holds), deleteMovie, the view increment and
\* the other calls of the rating handlers leave both as they are, also
\* between the two calls of a recompute.
C19_CacheWrittenOnlyByRecompute ==
  [][\A m \in Movies :
       Cached(movies'[m]) # Cached(movies[m])
         => \E r \in InFlight :
              /\ Moves(r) /\ r.pc = "movieWrite" /\ r.movieId = m
              /\ Cached(movies'[m]) = r.stats]_vars

\* an updateMovie with averageRating and totalRatings in its body has
\* changed the title of a rated movie and left the cache of the recompute
C19_Witness ==
  /\ resp.kind = "updateMovie" /\ resp.status = 200
  /\ resp.note = {"averageRating", "totalRatings"}
  /\ movies[resp.movieId].title = 2
  /\ movies[resp.movieId].totalRatings = 1
  /\ movies[resp.movieId].averageRating < 10 * MaxRating

\* C20: when the call that writes or deletes the Rating document fails, the
\* request answers 500 in that step: no rating and no movie changes and no
\* recompute is started; and a recompute starts only after a write that
\* went through.
C20_NoPartialApplication ==
  [][/\ (resp'.kind \in RatingOps /\ resp'.status = 500)
          => /\ ratings' = ratings /\ movies' = movies
             /\ ~resp'.committed /\ resp'.recomputes = 0
             /\ Entered = {}
     /\ \A s \in Entered : s.pc = "agg" => s.writeOk /\ s.recomputes = 1
     /\ ratings' # ratings => \E s \in Entered : s.pc = "agg" /\ s.committed]_vars

\* a deleteRating whose findOneAndDelete failed answers 500 and the rating
\* and the cache built from it are still there
C20_Witness ==
  /\ resp.kind = "delete" /\ resp.status = 500
  /\ RatingsOfPair(ratings, resp.userId, resp.movieId) # {}
  /\ movies[resp.movieId].totalRatings = 1

\* the number a page or limit value of the query string stands for, the
\* default when absent; text stands for none
ValidPagination(p) ==
  /\ p.page.type # "text" /\ p.limit.type # "text"
  /\ ParseInt(p.page, 1).n >= 1
  /\ ParseInt(p.limit, 12).n >= 1 /\ ParseInt(p.limit, 12).n <= 100

\* C21: getMovieRatings (of an active movie) and getUserRatings answer 200
\* only for page >= 1 and 1 <= limit <= 100 and 400 for every other page or
\* limit; a 200 response reports the number of matching Rating documents as
\* totalRatings, ceil(totalRatings / limit) as totalPages, and holds at
\* most limit ratings.
C21_PaginationContract ==
  [][(resp'.kind \in {"list", "userRatings"} /\ resp'.status # 404) =>
       LET p == resp'.pagination
           matching == IF resp'.kind = "list" THEN RatingsOf(ratings, resp'.movieId)
                       ELSE {d \in ratings : d.userId = resp'.userId}
       IN /\ resp'.status = 200 <=> ValidPagination(p)
          /\ ~ValidPagination(p) => resp'.status = 400
          /\ resp'.status = 200 =>
               /\ p.totalRatings = Cardinality(matching)
               /\ ~p.totalPages.nan
               /\ p.totalPages.n * ParseInt(p.limit, 12).n >= p.totalRatings
               /\ (p.totalPages.n - 1) * ParseInt(p.limit, 12).n < p.totalRatings
               /\ p.returned <= ParseInt(p.limit, 12).n]_vars

\* C22: every view request answered 200 has raised the stored views of its
\* movie by exactly one, so that N answered requests raise it by N.
C22_ViewsCountEveryRequest ==
  [][(resp'.kind = "view" /\ resp'.status = 200)
       => movies'[resp'.movieId].views = movies[resp'.movieId].views + 1]_vars

\* the user a token was generated for
Owner(token) == token[1]

\* token is an unexpired token that requestPasswordReset issued for an
\* active user, the one stored for that user
LiveToken(token) ==
  /\ token \in TokenPool
  /\ accounts[Owner(token)].isActive
  /\ isPasswordResetTokenValid(accounts[Owner(token)], token)

\* C23: resetPassword with an unexpired token issued for active user U
\* answers 200 and sets the password of U, and of no other user, to the new
\* password, whichever other active users there are.
C23_ResetTargetsOwner ==
  [][(resp'.kind = "reset" /\ LiveToken(resp'.token)) =>
       /\ resp'.status = 200
       /\ accounts'[Owner(resp'.token)].password = resp'.password
       /\ \A v \in AllUsers \ {Owner(resp'.token)} :
            accounts'[v].password = accounts[v].password]_vars

\* token was issued and has since been used by a successful reset or
\* replaced by a newer token of the same user
Spent(token) ==
  token \in TokenPool /\ token[2] \in accounts[Owner(token)].spent

C27_NoEmailEnumeration ==
  [][resp'.kind = "forgot" =>
       /\ resp'.status = 200
       /\ resp'.note = {"auth.passwordResetRequested"}]_vars

\* the request answered was for the e-mail of a deleted account, another
\* account having been sent a token
C27_Witness ==
  /\ resp.kind = "forgot" /\ resp.status = 200
  /\ resp.userId \in PairUserSet /\ ~accounts[resp.userId].isActive
  /\ \E v \in PairUserSet : accounts[v].issued > 0

\* C25: a POST /api/movies, PUT /api/movies/:id or DELETE /api/movies/:id
\* request without a valid token is answered 401 and creates no movie,
\* changes no field of a movie and sets no isActive to false.
C25_MovieAdministrationPrivate ==
  [][(resp'.kind \in AdminKinds /\ resp'.note \cap {"none", "invalid"} # {}) =>
       resp'.status = 401 /\ movies' = movies]_vars

\* C29: the movie a successful createMovie has stored has averageRating 0
\* and totalRatings 0, whatever the body held.
C29_NewMovieEmptyAggregate ==
  [][(resp'.kind = "createMovie" /\ resp'.status = 201) =>
       /\ ~Exists(resp'.movieId)
       /\ movies'[resp'.movieId].title # 0
       /\ RatingsOf(ratings', resp'.movieId) = {}
       /\ Cached(movies'[resp'.movieId]) = [average |-> 0, total |-> 0]]_vars

C28_StatisticsResponseConsistent ==
  [][(resp'.kind = "stats" /\ resp'.status = 200) =>
       resp'.distribution[1] + resp'.distribution[2] + resp'.distribution[3]
         + resp'.distribution[4] + resp'.distribution[5] = resp'.stats.total]_vars

\* C30: the success response of a createRating, updateRating or
\* deleteRating is sent by the step that ends the request's one recompute
\* attempt; and, requests running one at a time, a GET /api/movies/:id/stats
\* that follows the success response of a rating request whose recompute
\* did not fail returns the (rounded mean, count) of the ratings stored,
\* the mutation included.
C30_ReadYourWrites ==
  [][/\ (resp'.kind \in RatingOps /\ resp'.status \in {200, 201})
          => /\ Entered = {}
             /\ \E r \in InFlight : /\ Moves(r) /\ r.recomputes = 1
                                     /\ r.pc \in {"agg", "movieWrite"}
     /\ (/\ resp'.kind = "movieStats" /\ resp'.status = 200
         /\ Succeeded(resp) /\ resp.movieId = resp'.movieId /\ ~resp.hookFailed)
          => IsAggregateOf(resp'.stats, RatingsOf(ratings, resp'.movieId))]_vars

\* the read after the second rating of a movie was stored returns the mean
\* of the two, 4.5, and the count 2, a recompute having failed before
C30_Witness ==
  /\ resp.kind = "movieStats" /\ resp.status = 200 /\ "afterWrite" \in resp.note
  /\ resp.stats = [average |-> 45, total |-> 2]
  /\ recomputeFailed[resp.movieId]
  /\ Cardinality(RatingsOf(ratings, resp.movieId)) = 2

====
